---- MODULE Spec2Model ----
(***************************************************************************)
(* DNA fingerprinting simulation (backend/app.py): restriction digestion   *)
(* (cut_dna), the random sequence generator (generate_dna_sequence), the   *)
(* gel renderer's band layout and file naming (generate_gel_image) and the *)
(* request handler (simulate_fingerprint).                                 *)
(*                                                                         *)
(* A DNA string is a sequence of one-character strings; Python's 0-based   *)
(* offsets are kept, so offset i is element i+1 of the TLA+ sequence.      *)
(***************************************************************************)
EXTENDS Integers, Sequences, FiniteSets, TLC

VARIABLES
    \* cut_dna and the band layout of generate_gel_image
    sequence,       \* cut_dna: argument `sequence`
    enzymes,        \* cut_dna: argument `enzymes` (a bare name or a list of names)
    cut_positions,  \* cut_dna: local `cut_positions` after line 59
    fragments,      \* cut_dna: local `fragments` (lines 60-64, boundary order)
    returned,       \* cut_dna: the returned list (line 65)
    bands,          \* generate_gel_image: the experimental bands drawn (lines 79-87)
    pc,             \* position of the digestion/render pipeline
    \* simulate_fingerprint
    request,        \* the JSON body: dna_sequence (may be absent), enzyme, length
    dna_sequence,   \* local `dna_sequence` (lines 110, 116)
    genIter,        \* generate_dna_sequence: iterations of range(length) done
    genOut,         \* generate_dna_sequence: the characters joined so far
    generated,      \* whether generate_dna_sequence was called (line 116)
    response,       \* the handler's response
    hpc,            \* position of the handler
    \* the environment and concurrent generate_gel_image calls
    now,            \* the wall clock, in ticks of 1/TicksPerSecond second
    files,          \* STATIC_DIR: filename -> image written
    gpc,            \* per call: position in generate_gel_image
    gimage,         \* per call: the image drawn (lines 69-100)
    gstamp,         \* per call: the clock reading of line 103
    gname,          \* per call: local `filename` (line 103)
    writes          \* the calls that wrote their image (line 104), in order

cutVars == <<sequence, enzymes, cut_positions, fragments, returned, bands, pc>>
handlerVars == <<request, dna_sequence, genIter, genOut, generated, response, hpc>>
envVars == <<now, files>>
gelVars == <<gpc, gimage, gstamp, gname, writes>>
vars == <<cutVars, handlerVars, envVars, gelVars>>

----------------------------------------------------------------------------
(* Bounds of the model *)

\* the longest input sequence is built from at most MaxBlocks blocks
MaxBlocks == 3
\* the longest list of enzyme names passed to cut_dna
MaxEnzymes == 2
\* the longest raw dna_sequence string of a request (besides the examples)
MaxRawLen == 2
\* the largest `length` a request asks the generator for
MaxGenLength == 2
\* the number of concurrent generate_gel_image calls
NumCalls == 2
\* the number of clock ticks that pass while the calls run
MaxTicks == 4
\* clock resolution of the model: ticks per second (datetime.now() is finer
\* than the second that strftime keeps)
TicksPerSecond == 2

----------------------------------------------------------------------------
(* Generic helpers *)

Min(a, b) == IF a <= b THEN a ELSE b
Max(a, b) == IF a >= b THEN a ELSE b
Range(s) == {s[k] : k \in 1..Len(s)}

RECURSIVE Concat(_)
Concat(list) == IF list = <<>> THEN <<>> ELSE Head(list) \o Concat(Tail(list))

\* all sequences over S of length at most n
RECURSIVE SeqsUpTo(_, _)
SeqsUpTo(S, n) ==
    IF n = 0 THEN {<<>>}
    ELSE LET prev == SeqsUpTo(S, n - 1)
         IN  prev \cup {Append(s, x) : s \in prev, x \in S}

----------------------------------------------------------------------------
(* Configuration: app.py lines 17-25 *)

ENZYMES ==
    [EcoRI   |-> <<"G", "A", "A", "T", "T", "C">>,
     HindIII |-> <<"A", "A", "G", "C", "T", "T">>,
     BamHI   |-> <<"G", "G", "A", "T", "C", "C">>,
     PstI    |-> <<"C", "T", "G", "C", "A", "G">>]

DNA_LADDER == <<1000, 500, 200, 100, 50>>

bases == {"A", "T", "G", "C"}

----------------------------------------------------------------------------
(* cut_dna: app.py lines 44-65 *)

\* lines 46-47: a bare string is wrapped into a one-element list
EnzymeList(enzyme_input) ==
    IF enzyme_input.kind = "str" THEN <<enzyme_input.name>> ELSE enzyme_input.names

\* a plausible slip: an unknown name falls back to the default enzyme's site
EnzymesGetDefaulting(enzyme) ==
    IF enzyme \in DOMAIN ENZYMES THEN ENZYMES[enzyme] ELSE ENZYMES["EcoRI"]

\* line 51: ENZYMES.get(enzyme, "")
EnzymesGet(enzyme) == IF enzyme \in DOMAIN ENZYMES THEN ENZYMES[enzyme] ELSE <<>>

\* a plausible slip: the prefix is compared only as far as the sequence goes
StartsWithTruncated(s, prefix, i) ==
    \A k \in 1..Len(prefix) : (i + k <= Len(s)) => s[i + k] = prefix[k]

\* line 56: sequence.startswith(enzyme_seq, i), i a 0-based offset
StartsWith(s, prefix, i) ==
    /\ i + Len(prefix) <= Len(s)
    /\ \A k \in 1..Len(prefix) : s[i + k] = prefix[k]

\* a plausible slip: only the first match of an enzyme is recorded (str.find)
MatchEndsFirstOnly(s, enzyme_seq) ==
    LET hits == {i \in 0..(Len(s) - 1) : StartsWith(s, enzyme_seq, i)}
    IN  IF hits = {} THEN <<>>
        ELSE <<(CHOOSE i \in hits : \A j \in hits : i <= j) + Len(enzyme_seq)>>

\* lines 53-57: [i + len(enzyme_seq) for i in range(len(sequence))
\*               if sequence.startswith(enzyme_seq, i)]
MatchEnds(s, enzyme_seq) ==
    LET offsets == [k \in 1..Len(s) |-> k - 1]
        hits    == SelectSeq(offsets, LAMBDA i : StartsWith(s, enzyme_seq, i))
    IN  [k \in 1..Len(hits) |-> hits[k] + Len(enzyme_seq)]

\* lines 49-57: the loop over the enzymes, extending cut_positions in order
RECURSIVE CollectCuts(_, _)
CollectCuts(s, enzyme_list) ==
    IF enzyme_list = <<>> THEN <<>>
    ELSE LET enzyme_seq == EnzymesGet(Head(enzyme_list))
             found == IF enzyme_seq # <<>> THEN MatchEnds(s, enzyme_seq) ELSE <<>>
         IN  found \o CollectCuts(s, Tail(enzyme_list))

\* sorted(...) of a set of integers, ascending
RECURSIVE SortedAsc(_)
SortedAsc(S) ==
    IF S = {} THEN <<>>
    ELSE LET m == CHOOSE x \in S : \A y \in S : x <= y
         IN  <<m>> \o SortedAsc(S \ {m})

\* line 59: sorted(list(set(cut_positions)))
CutPositions(s, enzyme_list) == SortedAsc(Range(CollectCuts(s, enzyme_list)))

\* sequence[i:j] for 0 <= i, 0 <= j (Python clamps both to len(sequence))
PySlice(s, i, j) == SubSeq(s, Min(i, Len(s)) + 1, Min(j, Len(s)))

\* a plausible slip: the part after the last cut is forgotten
FormFragmentsNoTail(s, cuts) ==
    LET starts == <<0>> \o cuts
        pieces == [k \in 1..Len(cuts) |-> PySlice(s, starts[k], cuts[k])]
    IN  SelectSeq(pieces, LAMBDA f : f # <<>>)

\* lines 60-64: zip([0] + cut_positions, cut_positions + [None]), empty
\* slices skipped; sequence[i:None] is the slice to the end of the sequence
FormFragments(s, cuts) ==
    LET starts == <<0>> \o cuts
        ends   == cuts \o <<Len(s)>>
        pieces == [k \in 1..Len(starts) |-> PySlice(s, starts[k], ends[k])]
    IN  SelectSeq(pieces, LAMBDA f : f # <<>>)

\* a plausible slip: ascending stable sort, then reversed (sorted(...)[::-1])
RECURSIVE SortedByLenAscReversed(_)
SortedByLenAscReversed(list) ==
    IF list = <<>> THEN <<>>
    ELSE LET rest == SortedByLenAscReversed(Tail(list))
             x    == Head(list)
         IN  SelectSeq(rest, LAMBDA f : Len(f) >= Len(x)) \o <<x>>
                 \o SelectSeq(rest, LAMBDA f : Len(f) < Len(x))

\* line 65: sorted(fragments, key=len, reverse=True); Python's sort is stable
\* and reverse=True keeps the original order of elements with equal keys
RECURSIVE SortedByLenDesc(_)
SortedByLenDesc(list) ==
    IF list = <<>> THEN <<>>
    ELSE LET n    == Len(list)
             rest == SortedByLenDesc(SubSeq(list, 1, n - 1))
             x    == list[n]
         IN  SelectSeq(rest, LAMBDA f : Len(f) >= Len(x)) \o <<x>>
                 \o SelectSeq(rest, LAMBDA f : Len(f) < Len(x))

----------------------------------------------------------------------------
(* generate_gel_image, experimental bands: app.py lines 78-87 *)

\* a plausible slip: the minimum height is forgotten
BandHeightNoFloor(frag_len, max_len) == (30 * frag_len) \div max_len

\* line 82: max(5, int(30 * (len(frag)/max_len))); the float product truncates
\* to floor(30*len/max_len) for every 1 <= len <= max_len <= 3000
BandHeight(frag_len, max_len) == Max(5, (30 * frag_len) \div max_len)

\* line 83: y_pos = 100 + i * 40, i the 0-based band index
BandY(i) == 100 + i * 40

\* line 80: max(len(frag) for frag in fragments), fragments non-empty
MaxLen(frags) ==
    CHOOSE m \in {Len(frags[k]) : k \in 1..Len(frags)} :
        \A k \in 1..Len(frags) : Len(frags[k]) <= m

\* lines 79-87: one band (rectangle and "<len>bp" label) per fragment;
\* nothing is drawn, and max() is not evaluated, for an empty list
ExperimentalBands(frags) ==
    IF frags = <<>> THEN <<>>
    ELSE LET max_len == MaxLen(frags)
         IN  [k \in 1..Len(frags) |->
                 [y      |-> BandY(k - 1),
                  height |-> BandHeight(Len(frags[k]), max_len),
                  bp     |-> Len(frags[k])]]

----------------------------------------------------------------------------
(* Inputs of the digestion pipeline *)

\* the spec's worked example, S = "AAGAATTCGG"
ExampleSequence == <<"A", "A", "G", "A", "A", "T", "T", "C", "G", "G">>

\* building blocks of input sequences: a single base, the recognition sites
\* and a site tail that overlaps the last base of a preceding site
Blocks ==
    {<<"G">>}
        \cup {ENZYMES[e] : e \in DOMAIN ENZYMES}
        \cup {<<"T", "G", "C", "A", "G">>}

SeqInputs == {Concat(bs) : bs \in SeqsUpTo(Blocks, MaxBlocks)} \cup {ExampleSequence}

EnzymeNames == DOMAIN ENZYMES \cup {"Foo"}

EnzymeInputs ==
    {[kind |-> "str", name |-> e] : e \in EnzymeNames}
        \cup {[kind |-> "list", names |-> l] : l \in SeqsUpTo(EnzymeNames, MaxEnzymes)}

----------------------------------------------------------------------------
(* The digestion pipeline: cut_dna, then the band layout of its result *)

NoResponse == [status |-> 0, error |-> <<>>, body |-> <<>>]
NoRequest == [present |-> FALSE, dna_sequence |-> <<>>,
              enzyme |-> [kind |-> "list", names |-> <<>>], length |-> 0]
NoFiles == [n \in {} |-> <<>>]

CutIdle ==
    /\ sequence = <<>>
    /\ enzymes = [kind |-> "list", names |-> <<>>]
    /\ cut_positions = <<>>
    /\ fragments = <<>>
    /\ returned = <<>>
    /\ bands = <<>>
    /\ pc = "start"

HandlerIdle ==
    /\ request = NoRequest
    /\ dna_sequence = <<>>
    /\ genIter = 0
    /\ genOut = <<>>
    /\ generated = FALSE
    /\ response = NoResponse
    /\ hpc = "idle"

GelIdle ==
    /\ gpc = [c \in 1..NumCalls |-> "idle"]
    /\ gimage = [c \in 1..NumCalls |-> <<>>]
    /\ gstamp = [c \in 1..NumCalls |-> 0]
    /\ gname = [c \in 1..NumCalls |-> <<>>]
    /\ writes = <<>>

\* the effect of cut_dna(s, e), lines 44-65, on the pipeline's variables
CutDnaCall(s, e) ==
    /\ sequence' = s
    /\ enzymes' = e
    /\ cut_positions' = CutPositions(s, EnzymeList(e))
    /\ fragments' = FormFragments(s, cut_positions')
    /\ returned' = SortedByLenDesc(fragments')
    /\ pc' = "cut"

InitCut ==
    /\ sequence \in SeqInputs
    /\ enzymes \in EnzymeInputs
    /\ cut_positions = <<>>
    /\ fragments = <<>>
    /\ returned = <<>>
    /\ bands = <<>>
    /\ pc = "start"
    /\ HandlerIdle
    /\ GelIdle
    /\ now = 0
    /\ files = NoFiles

\* cut_dna(sequence, enzymes), lines 44-65
CutDna ==
    /\ pc = "start"
    /\ CutDnaCall(sequence, enzymes)
    /\ UNCHANGED <<bands, handlerVars, envVars, gelVars>>

\* generate_gel_image(fragments, ...), lines 78-87, on cut_dna's result
DrawBands ==
    /\ pc = "cut"
    /\ bands' = ExperimentalBands(returned)
    /\ pc' = "drawn"
    /\ UNCHANGED <<sequence, enzymes, cut_positions, fragments, returned>>
    /\ UNCHANGED <<handlerVars, envVars, gelVars>>

NextCut == CutDna \/ DrawBands

SpecCut == InitCut /\ [][NextCut]_vars

----------------------------------------------------------------------------
(* Properties of the digestion pipeline (checked under SpecCut) *)

Count(list, x) == Cardinality({k \in 1..Len(list) : list[k] = x})

IsPermutation(a, b) ==
    /\ Len(a) = Len(b)
    /\ \A x \in Range(a) \cup Range(b) : Count(a, x) = Count(b, x)

\* the recognition site of enzyme e occurs in s at 0-based offset i
SiteAt(s, e, i) ==
    /\ i + Len(ENZYMES[e]) <= Len(s)
    /\ SubSeq(s, i + 1, i + Len(ENZYMES[e])) = ENZYMES[e]

\* the enzymes of the list that are in the table
TableEnzymes(enzyme_list) == Range(enzyme_list) \cap DOMAIN ENZYMES

\* no recognition site of a listed table enzyme occurs in s
NoSiteOccurs(s, enzyme_list) ==
    \A e \in TableEnzymes(enzyme_list) : \A i \in 0..Len(s) : ~SiteAt(s, e, i)

\* C1: the fragments cut_dna forms, in boundary order (before the length
\* sort), concatenate to exactly the input sequence, and the returned list is
\* a permutation of them.
C1_FragmentsPartitionSequence ==
    pc # "start" =>
        /\ Concat(fragments) = sequence
        /\ IsPermutation(returned, fragments)

\* C1 witness: a digest with at least two fragments whose returned order
\* differs from the boundary order
C1_Witness ==
    /\ pc = "cut"
    /\ Len(fragments) >= 2
    /\ returned # fragments

\* C2: the cut positions are exactly the ends i + len(r) of all (possibly
\* overlapping) matches of the listed table enzymes' recognition sequences,
\* without duplicates; AAGAATTCGG with EcoRI gives the cut 8 and the result
\* [AAGAATTC, GG].
C2_CutSetIsMatchEnds ==
    pc # "start" =>
        /\ Range(cut_positions) =
              {i + Len(ENZYMES[e]) :
                  <<i, e>> \in {x \in (0..Len(sequence)) \X TableEnzymes(EnzymeList(enzymes)) :
                                   SiteAt(sequence, x[2], x[1])}}
        /\ Cardinality(Range(cut_positions)) = Len(cut_positions)
        /\ (sequence = ExampleSequence /\ EnzymeList(enzymes) = <<"EcoRI">>) =>
              /\ cut_positions = <<8>>
              /\ returned = <<SubSeq(ExampleSequence, 1, 8), <<"G", "G">>>>

\* C2 witness: matches of two different enzymes overlap (their cuts are
\* closer than a site length) in a digest naming both enzymes
C2_Witness ==
    /\ pc = "cut"
    /\ \E a, b \in Range(cut_positions) : a < b /\ b - a < 6
    /\ Cardinality(TableEnzymes(EnzymeList(enzymes))) = 2

\* C3 as stated: every cut offset lies strictly between 0 and len(sequence).
C3_CutsStrictlyInside ==
    pc # "start" =>
        \A c \in Range(cut_positions) : 0 < c /\ c < Len(sequence)

\* C3 amended: every cut offset c satisfies 0 < c <= len(sequence); a site at
\* the very end of the sequence gives the cut len(sequence).
C3_CutsWithinSequence ==
    pc # "start" =>
        \A c \in Range(cut_positions) : 0 < c /\ c <= Len(sequence)

\* C3 witness: a recognition site is the last characters of the sequence
C3_Witness ==
    /\ pc = "cut"
    /\ Len(sequence) \in Range(cut_positions)
    /\ Len(cut_positions) >= 2

\* C4 as stated: when no listed recognition sequence occurs, the result is
\* the one fragment S, for every S of length >= 0.
C4_NoSiteOneFragment ==
    (pc # "start" /\ NoSiteOccurs(sequence, EnzymeList(enzymes))) =>
        returned = <<sequence>>

\* C4 amended: when no listed recognition sequence occurs, the result is the
\* one fragment S if S is non-empty, and the empty list if S is empty.
C4_NoSiteWholeOrNothing ==
    (pc # "start" /\ NoSiteOccurs(sequence, EnzymeList(enzymes))) =>
        returned = (IF sequence = <<>> THEN <<>> ELSE <<sequence>>)

\* C4 witness: only a name absent from the table is given, on a sequence that
\* holds a table enzyme's site, and the sequence comes back whole
C4_Witness ==
    /\ pc = "cut"
    /\ Range(EnzymeList(enzymes)) = {"Foo"}
    /\ \E i \in 0..Len(sequence) : SiteAt(sequence, "EcoRI", i)
    /\ returned = <<sequence>>

\* C5: the returned list is ordered by length non-increasing, holds no empty
\* fragment, and fragments of equal length keep their boundary order.
C5_SortedStableNonEmpty ==
    pc # "start" =>
        /\ \A k \in 1..(Len(returned) - 1) : Len(returned[k]) >= Len(returned[k + 1])
        /\ \A k \in 1..Len(returned) : returned[k] # <<>>
        /\ \A n \in {Len(f) : f \in Range(fragments) \cup Range(returned)} :
              SelectSeq(returned, LAMBDA f : Len(f) = n)
                  = SelectSeq(fragments, LAMBDA f : Len(f) = n)

\* C5 witness: two different fragments of equal length are returned
C5_Witness ==
    /\ pc = "cut"
    /\ \E i, j \in 1..Len(returned) :
          i < j /\ Len(returned[i]) = Len(returned[j]) /\ returned[i] # returned[j]

\* C10: one band per fragment, band i at y = 100 + 40*i with height
\* max(5, floor(30*len_i/max_len)); heights lie in 5..30, the first is 30,
\* they do not increase down the lane, and consecutive bands do not overlap;
\* an empty fragment list draws no band.
C10_BandLayout ==
    pc = "drawn" =>
        /\ Len(bands) = Len(returned)
        /\ (returned = <<>>) => (bands = <<>>)
        /\ \A k \in 1..Len(bands) :
              /\ bands[k].y = 100 + 40 * (k - 1)
              /\ bands[k].height =
                    Max(5, (30 * Len(returned[k])) \div Len(returned[1]))
              /\ 5 <= bands[k].height /\ bands[k].height <= 30
        /\ (bands # <<>>) => (bands[1].height = 30)
        /\ \A k \in 1..(Len(bands) - 1) :
              /\ bands[k].height >= bands[k + 1].height
              /\ bands[k].y + bands[k].height < bands[k + 1].y

\* C10 witness: several bands are drawn and the minimum height applies to one
C10_Witness ==
    /\ pc = "drawn"
    /\ Len(bands) >= 2
    /\ \E k \in 1..Len(bands) :
          (30 * Len(returned[k])) \div Len(returned[1]) < 5 /\ bands[k].height = 5

----------------------------------------------------------------------------
(* generate_dna_sequence: app.py lines 34-42 *)

\* the recognition sequences of the table
Sites == {ENZYMES[e] : e \in DOMAIN ENZYMES}

\* lines 38-40: what one iteration of the generator expression yields, as the
\* string that ''.join appends.  ENZYMES[random.choice(keys)] is a recognition
\* sequence and random.choice of that string is ONE of its characters; the
\* other branch is random.choice(bases).
GenIterationOutcomes ==
    {<<c>> : c \in UNION {Range(ENZYMES[e]) : e \in DOMAIN ENZYMES}}
        \cup {<<b>> : b \in bases}

----------------------------------------------------------------------------
(* generate_gel_image, file naming and writing: app.py lines 96-105 *)

\* ', '.join(list) and '+'.join(list): the items with the separator between
RECURSIVE Join(_, _)
Join(sep, list) ==
    IF list = <<>> THEN <<>>
    ELSE IF Len(list) = 1 THEN list
    ELSE <<Head(list), sep>> \o Join(sep, Tail(list))

\* lines 69-100: the image is determined by the bands and the lane label
Image(frags, enzyme_list) ==
    [bands |-> ExperimentalBands(frags),
     label |-> Join("+", enzyme_list) \o <<" Digest">>]

\* the clock starts two seconds before the end of a minute
ClockStart == 58 * TicksPerSecond

\* a plausible slip: the seconds are left out of the format ('%Y%m%d%H%M')
GelFilenameMinuteOnly(t) ==
    LET sec == t \div TicksPerSecond
        H   == sec \div 3600
        M   == (sec \div 60) % 60
    IN  <<"gel_", H \div 10, H % 10, M \div 10, M % 10, ".png">>

\* line 103: f"gel_{datetime.now().strftime('%Y%m%d%H%M%S')}.png"; strftime
\* drops the sub-second part and prints each field with two digits (the date
\* is fixed over the span of the model and left out)
GelFilename(t) ==
    LET sec == t \div TicksPerSecond
        H   == sec \div 3600
        M   == (sec \div 60) % 60
        S   == sec % 60
    IN  <<"gel_", H \div 10, H % 10, M \div 10, M % 10, S \div 10, S % 10, ".png">>

\* line 104: cv2.imwrite(path, img) creates the file or replaces its content
WriteFile(dir, name, img) ==
    [n \in DOMAIN dir \cup {name} |-> IF n = name THEN img ELSE dir[n]]

----------------------------------------------------------------------------
(* simulate_fingerprint: app.py lines 107-136 *)

\* str.upper() on the characters of the model
Upper(c) ==
    CASE c = "a" -> "A"
      [] c = "t" -> "T"
      [] c = "g" -> "G"
      [] c = "c" -> "C"
      [] c = "x" -> "X"
      [] OTHER -> c

\* a plausible slip: spaces are removed but the case is kept
NormalizeKeepCase(raw) == SelectSeq(raw, LAMBDA c : c # " ")

\* line 110: .upper().replace(" ", "")
Normalize(raw) ==
    SelectSeq([k \in 1..Len(raw) |-> Upper(raw[k])], LAMBDA c : c # " ")

\* line 110: data.get('dna_sequence', '')
RequestSequence(req) == IF req.present THEN req.dna_sequence ELSE <<>>

\* line 117: all(c in 'ATGC' for c in dna_sequence)
IsValidDna(s) == \A k \in 1..Len(s) : s[k] \in {"A", "T", "G", "C"}

\* a plausible slip: only the first unrecognized name is reported
InvalidEnzymesFirstOnly(names) ==
    LET bad == SelectSeq(names, LAMBDA e : e \notin DOMAIN ENZYMES)
    IN  IF bad = <<>> THEN <<>> ELSE <<Head(bad)>>

\* line 122: [e for e in enzymes if e not in ENZYMES]
InvalidEnzymes(names) == SelectSeq(names, LAMBDA e : e \notin DOMAIN ENZYMES)

\* line 118
InvalidSequenceError == <<"Invalid DNA sequence (only A, T, G, C allowed)">>

\* line 124: f"Invalid enzymes: {', '.join(invalid_enzymes)}"
InvalidEnzymeError(invalid) == <<"Invalid enzymes: ">> \o Join(", ", invalid)

\* the characters of raw request strings
RawChars == {"A", "g", " ", "X"}

\* "aagaattc gg": the worked example in lower case with a space
ExampleRaw == <<"a", "a", "g", "a", "a", "t", "t", "c", " ", "g", "g">>

RequestEnzymeNames == {"EcoRI", "PstI", "Foo", "Bar"}

RequestEnzymeInputs ==
    {[kind |-> "str", name |-> e] : e \in RequestEnzymeNames}
        \cup {[kind |-> "list", names |-> l] :
                 l \in SeqsUpTo(RequestEnzymeNames, MaxEnzymes)}

Requests ==
    {[present |-> TRUE, dna_sequence |-> s, enzyme |-> e, length |-> n] :
        s \in SeqsUpTo(RawChars, MaxRawLen) \cup {ExampleRaw},
        e \in RequestEnzymeInputs, n \in 0..MaxGenLength}
    \cup
    {[present |-> FALSE, dna_sequence |-> <<>>, enzyme |-> e, length |-> n] :
        e \in RequestEnzymeInputs, n \in 0..MaxGenLength}

InitHandler ==
    /\ request \in Requests
    /\ dna_sequence = <<>>
    /\ genIter = 0
    /\ genOut = <<>>
    /\ generated = FALSE
    /\ response = NoResponse
    /\ hpc = "received"
    /\ CutIdle
    /\ GelIdle
    /\ now = ClockStart
    /\ files = NoFiles

\* lines 109-118: read and normalize dna_sequence, then generate, reject or keep
ValidateSequence ==
    /\ hpc = "received"
    /\ dna_sequence' = Normalize(RequestSequence(request))
    /\ IF dna_sequence' = <<>>
         THEN /\ generated' = TRUE
              /\ hpc' = "generate"
              /\ UNCHANGED response
         ELSE IF ~IsValidDna(dna_sequence')
         THEN /\ response' = [status |-> 400, error |-> InvalidSequenceError, body |-> <<>>]
              /\ hpc' = "done"
              /\ UNCHANGED generated
         ELSE /\ hpc' = "enzymes"
              /\ UNCHANGED <<generated, response>>
    /\ UNCHANGED <<request, genIter, genOut, cutVars, envVars, gelVars>>

\* lines 37-41: one iteration of `for _ in range(length)`
GenerateStep ==
    /\ hpc = "generate"
    /\ genIter < request.length
    /\ \E piece \in GenIterationOutcomes : genOut' = genOut \o piece
    /\ genIter' = genIter + 1
    /\ UNCHANGED <<request, dna_sequence, generated, response, hpc>>
    /\ UNCHANGED <<cutVars, envVars, gelVars>>

\* lines 37, 42, 116: the joined string is returned and assigned
GenerateReturn ==
    /\ hpc = "generate"
    /\ genIter >= request.length
    /\ dna_sequence' = genOut
    /\ hpc' = "enzymes"
    /\ UNCHANGED <<request, genIter, genOut, generated, response>>
    /\ UNCHANGED <<cutVars, envVars, gelVars>>

\* lines 120-124: wrap a bare string, reject unrecognized names
ValidateEnzymes ==
    /\ hpc = "enzymes"
    /\ LET invalid_enzymes == InvalidEnzymes(EnzymeList(request.enzyme))
       IN  IF invalid_enzymes # <<>>
             THEN /\ response' = [status |-> 400,
                                  error  |-> InvalidEnzymeError(invalid_enzymes),
                                  body   |-> <<>>]
                  /\ hpc' = "done"
             ELSE /\ hpc' = "digest"
                  /\ UNCHANGED response
    /\ UNCHANGED <<request, dna_sequence, genIter, genOut, generated>>
    /\ UNCHANGED <<cutVars, envVars, gelVars>>

\* line 127: fragments = cut_dna(dna_sequence, enzymes)
Digest ==
    /\ hpc = "digest"
    /\ CutDnaCall(dna_sequence, [kind |-> "list", names |-> EnzymeList(request.enzyme)])
    /\ hpc' = "render"
    /\ UNCHANGED <<bands, request, dna_sequence, genIter, genOut, generated, response>>
    /\ UNCHANGED <<envVars, gelVars>>

\* lines 128-136: generate_gel_image(fragments, enzymes) and the response
RenderAndRespond ==
    /\ hpc = "render"
    /\ bands' = ExperimentalBands(returned)
    /\ pc' = "drawn"
    /\ files' = WriteFile(files, GelFilename(now),
                          Image(returned, EnzymeList(request.enzyme)))
    /\ response' = [status |-> 200, error |-> <<>>,
                    body |-> [dna_sequence |-> dna_sequence,
                              fragments    |-> returned,
                              gel_image    |-> GelFilename(now),
                              enzyme_used  |-> EnzymeList(request.enzyme),
                              ladder_sizes |-> DNA_LADDER]]
    /\ hpc' = "done"
    /\ UNCHANGED <<sequence, enzymes, cut_positions, fragments, returned>>
    /\ UNCHANGED <<request, dna_sequence, genIter, genOut, generated, now, gelVars>>

NextHandler ==
    \/ ValidateSequence
    \/ GenerateStep
    \/ GenerateReturn
    \/ ValidateEnzymes
    \/ Digest
    \/ RenderAndRespond

SpecHandler == InitHandler /\ [][NextHandler]_vars

----------------------------------------------------------------------------
(* Concurrent generate_gel_image calls sharing STATIC_DIR and the clock *)

Calls == 1..NumCalls

\* arguments of the calls: fragment lists as cut_dna returns them
GelInputs ==
    {[fragments |-> f, enzymes |-> <<"EcoRI">>] :
        f \in {<<>>, <<ENZYMES["EcoRI"]>>,
               <<SubSeq(ExampleSequence, 1, 8), <<"G", "G">>>>}}

InitGel ==
    /\ CutIdle
    /\ HandlerIdle
    /\ GelIdle
    /\ now = ClockStart
    /\ files = NoFiles

\* time passes
Tick ==
    /\ now < ClockStart + MaxTicks
    /\ now' = now + 1
    /\ UNCHANGED <<files, cutVars, handlerVars, gelVars>>

\* lines 67-100: the call is made and draws its image in memory
GelDraw(c) ==
    /\ gpc[c] = "idle"
    /\ \E arg \in GelInputs :
          gimage' = [gimage EXCEPT ![c] = Image(arg.fragments, arg.enzymes)]
    /\ gpc' = [gpc EXCEPT ![c] = "drawn"]
    /\ UNCHANGED <<gstamp, gname, writes, envVars, cutVars, handlerVars>>

\* line 103: the clock is read and the filename formed
GelName(c) ==
    /\ gpc[c] = "drawn"
    /\ gstamp' = [gstamp EXCEPT ![c] = now]
    /\ gname' = [gname EXCEPT ![c] = GelFilename(now)]
    /\ gpc' = [gpc EXCEPT ![c] = "named"]
    /\ UNCHANGED <<gimage, writes, envVars, cutVars, handlerVars>>

\* lines 104-105: the image is written under the filename, which is returned
GelWrite(c) ==
    /\ gpc[c] = "named"
    /\ files' = WriteFile(files, gname[c], gimage[c])
    /\ writes' = Append(writes, c)
    /\ gpc' = [gpc EXCEPT ![c] = "returned"]
    /\ UNCHANGED <<gimage, gstamp, gname, now, cutVars, handlerVars>>

NextGel ==
    \/ Tick
    \/ \E c \in Calls : GelDraw(c)
    \/ \E c \in Calls : GelName(c)
    \/ \E c \in Calls : GelWrite(c)

SpecGel == InitGel /\ [][NextGel]_vars

----------------------------------------------------------------------------
(* Properties of the generator and the handler (checked under SpecHandler) *)

\* the request's dna_sequence upper-cased with its spaces removed
RECURSIVE UpperNoSpaces(_)
UpperNoSpaces(raw) ==
    IF raw = <<>> THEN <<>>
    ELSE IF Head(raw) = " " THEN UpperNoSpaces(Tail(raw))
    ELSE <<Upper(Head(raw))>> \o UpperNoSpaces(Tail(raw))

\* the names of the list that are not in the table, in order
RECURSIVE Unrecognized(_)
Unrecognized(names) ==
    IF names = <<>> THEN <<>>
    ELSE IF Head(names) \in DOMAIN ENZYMES THEN Unrecognized(Tail(names))
    ELSE <<Head(names)>> \o Unrecognized(Tail(names))

IsInvalidSequenceResponse ==
    response.status = 400 /\ response.error = InvalidSequenceError

\* the handler is past sequence validation and generation
PastSequence == hpc \in {"enzymes", "digest", "render", "done"}

\* C6: in an iteration the generator may append one entire recognition
\* sequence (6 bases) instead of a single base, so the result can be longer
\* than the requested length.
C6_IterationMayInsertWholeSite ==
    (hpc = "generate" /\ genIter < request.length) =>
        ENABLED (GenerateStep /\ Len(genOut') = Len(genOut) + 6)

\* C6, what the code does: every iteration appends exactly one character, so
\* the generated sequence has exactly the requested length.
C6_GeneratedLengthIsExact ==
    /\ (hpc = "generate") => (Len(genOut) = genIter /\ genIter <= request.length)
    /\ (generated /\ PastSequence) => (Len(dna_sequence) = request.length)

\* C7 as stated: for every non-empty dna_sequence (also one of spaces only)
\* nothing is generated; the request fails with InvalidSequence exactly when a
\* character other than A, T, G, C remains after normalization, and a success
\* returns exactly the normalized string.
C7_NonEmptyNeverGenerated ==
    (request.present /\ request.dna_sequence # <<>>) =>
        /\ ~generated
        /\ (hpc = "done") =>
              /\ IsInvalidSequenceResponse <=>
                    (\E c \in Range(UpperNoSpaces(request.dna_sequence)) : c \notin bases)
              /\ (response.status = 200) =>
                    (response.body.dna_sequence = UpperNoSpaces(request.dna_sequence))

\* C7 amended: a sequence is generated exactly when dna_sequence is absent or
\* is empty after upper-casing and removing spaces (so also for a string of
\* spaces only); otherwise the request fails with InvalidSequence exactly when
\* a remaining character is outside A, T, G, C, and else the handler goes on
\* with exactly the normalized string, which a success returns.
C7_GeneratedIffNormalizedEmpty ==
    LET norm == UpperNoSpaces(RequestSequence(request))
    IN  /\ (hpc # "received") => (generated <=> (norm = <<>>))
        /\ (hpc = "done" /\ norm # <<>>) =>
              /\ IsInvalidSequenceResponse <=> (\E c \in Range(norm) : c \notin bases)
              /\ (response.status = 200) => (response.body.dna_sequence = norm)
        /\ (PastSequence /\ norm # <<>>) => (dna_sequence = norm)

\* C7 witness: a lower-case sequence with a space was normalized, digested and
\* returned in its normalized form
C7_Witness ==
    /\ hpc = "done"
    /\ request.dna_sequence = ExampleRaw
    /\ response.status = 200
    /\ response.body.dna_sequence = ExampleSequence
    /\ ~generated

\* C8: once the sequence is accepted or generated, a request naming an enzyme
\* that is not in the table gets a 400 listing exactly the unrecognized names
\* in request order, and cut_dna and generate_gel_image are not run and no
\* file is written; with every name in the table the handler digests and
\* renders.
C8_InvalidEnzymeStops ==
    LET bad == Unrecognized(EnzymeList(request.enzyme))
    IN  /\ (bad # <<>>) => (pc = "start" /\ bands = <<>> /\ files = NoFiles)
        /\ (hpc = "done" /\ ~IsInvalidSequenceResponse /\ bad # <<>>) =>
              /\ response.status = 400
              /\ response.error = <<"Invalid enzymes: ">> \o Join(", ", bad)
        /\ (hpc = "done" /\ ~IsInvalidSequenceResponse /\ bad = <<>>) =>
              /\ response.status = 200
              /\ pc = "drawn"
              /\ sequence = dna_sequence
              /\ response.body.fragments = returned
              /\ response.body.gel_image \in DOMAIN files

\* C8 witness: a request with two unrecognized names was rejected
C8_Witness ==
    /\ hpc = "done"
    /\ response.status = 400
    /\ response.error = <<"Invalid enzymes: ", "Foo", ", ", "Bar">>
    /\ files = NoFiles

----------------------------------------------------------------------------
(* Properties of concurrent gel image writes (checked under SpecGel) *)

\* the second a clock reading falls in
SecondOf(t) == t \div TicksPerSecond

HasName(c) == gpc[c] \in {"named", "returned"}

\* the call that wrote file `name` last
LastWriter(name) ==
    LET ks == {k \in 1..Len(writes) : gname[writes[k]] = name}
    IN  writes[CHOOSE k \in ks : \A j \in ks : j <= k]

\* C9: two calls get the same filename exactly when their clock readings fall
\* in the same second; a file holds the image of the last call that wrote
\* under its name, so a later write replaces an earlier image of the same
\* second; calls of different seconds never share or overwrite a file.
C9_FilenameBySecondOnly ==
    /\ \A c, d \in Calls :
          (HasName(c) /\ HasName(d)) =>
              ((gname[c] = gname[d]) <=> (SecondOf(gstamp[c]) = SecondOf(gstamp[d])))
    /\ DOMAIN files = {gname[c] : c \in {d \in Calls : gpc[d] = "returned"}}
    /\ \A c \in Calls :
          (gpc[c] = "returned") =>
              /\ files[gname[c]] = gimage[LastWriter(gname[c])]
              /\ SecondOf(gstamp[LastWriter(gname[c])]) = SecondOf(gstamp[c])

\* C9 witness: two calls of the same second, at different clock readings, have
\* returned the same filename, and the file holds the other call's image
C9_Witness ==
    \E c, d \in Calls :
        /\ c # d
        /\ gpc[c] = "returned" /\ gpc[d] = "returned"
        /\ gstamp[c] # gstamp[d]
        /\ gname[c] = gname[d]
        /\ files[gname[c]] = gimage[d]
        /\ files[gname[c]] # gimage[c]

====
